---- MODULE Spec2Model ----
(***************************************************************************)
(* Model of the face-search backend of Rivion (backend/app, FastAPI).      *)
(*                                                                         *)
(* The search endpoint search_photos is an `async def` whose only await is *)
(* upload_image_to_s3, a coroutine that never suspends; the event loop     *)
(* therefore runs one request to completion before anything else, and the  *)
(* handler is one action.  The order of the calls inside it is kept in the *)
(* variable `calls`.  cleanup_session suspends once, in asyncio.sleep: a   *)
(* pending task is an element of `tasks` and its wake-up is an action.     *)
(* What a coroutine computed (request ... response, last_purge) stays in   *)
(* the state until it returns to the event loop, which then takes the next *)
(* request, wakes a task, or lets time pass.                               *)
(*                                                                         *)
(* A table is the bag of its rows, without the generated uuid keys; of a   *)
(* session_user row the columns session_id, created_at and expires_at are  *)
(* kept: the others are written once and read by nothing.                  *)
(*                                                                         *)
(* Time is counted in hours.  Probabilities are hundredths, fractions are  *)
(* pairs <<numerator, denominator>>.  A Python dict is the sequence of its *)
(* <<key, value>> items in insertion order.                                *)
(***************************************************************************)
EXTENDS Integers, Sequences, FiniteSets, Bags, TLC

VARIABLES
    now,              \* datetime.utcnow(), in hours
    running,          \* the coroutine the event loop is running, or "idle"
    db,               \* the three tables of services/database.py
    s3,               \* keys stored in the bucket
    tasks,            \* cleanup_session coroutines asleep in asyncio.sleep
    lost,             \* sessions whose cleanup task a restart has discarded
    request,          \* the request search_photos is handling
    env,              \* what the collaborators did for that request
    calls,            \* the calls search_photos made for it, in order
    emotion_results,  \* search_photos' local list after step 6
    aggregated,       \* what aggregate_emotions returned
    response,         \* the HTTP response of search_photos
    last_purge,       \* the delete_session cleanup_session performed
    stage,            \* App: 'capture', 'form' or 'results'
    capturedImage,    \* App: the data URL handed over by onCapture
    appResults,       \* App: results, the data of the search response
    isLoading,        \* App
    error,            \* App
    backendOnline,    \* App
    health,           \* the promise of healthCheck() made on mount
    inflight,         \* the payload of the POST that searchFaces awaits
    sent,             \* every payload passed to onSearch, in order
    privacyAgreed,    \* MetadataFormComponent
    faceDetected,     \* FaceCaptureComponent
    canvas,           \* the frame drawn on canvasRef.current
    detection,        \* where the loop of detectFaces stands
    answered          \* the frame whose predictions set faceDetected

server == <<now, running, db, s3, tasks, lost, request, env, calls,
            emotion_results, aggregated, response, last_purge>>

client == <<stage, capturedImage, appResults, isLoading, error, backendOnline,
            health, inflight, sent, privacyAgreed, faceDetected, canvas,
            detection, answered>>

vars == <<server, client>>

None == "None"

----------------------------------------------------------------------------
(* Bounds of the model *)

MaxTime == 36          \* the clock stops here
TickHours == 12        \* hours that pass in one step of the clock
MaxCandidates == 2     \* most candidates the similarity index returns
MaxLen == 3            \* longest list given to aggregate_emotions alone
MaxFrames == 3         \* video frames drawn on the canvas of one mount
MaxSubmits == 2        \* searches one user submits

SessionIds == {"s1", "s2"}

----------------------------------------------------------------------------
(* config.py *)

MAX_IMAGES_TO_PROCESS == 50
SESSION_EXPIRY_HOURS == 24
SECONDS_PER_HOUR == 3600

----------------------------------------------------------------------------
(* Python helpers *)

Min(a, b) == IF a < b THEN a ELSE b

\* list[:n]
Slice(list, n) == SubSeq(list, 1, Min(Len(list), n))

\* k in d
DictHas(d, k) == \E i \in DOMAIN d : d[i][1] = k

\* d.get(k, default)
DictGet(d, k, default) ==
    IF DictHas(d, k)
    THEN d[CHOOSE i \in DOMAIN d : d[i][1] = k][2]
    ELSE default

\* d[k] = v : an existing key keeps its place, a new key goes last
DictSet(d, k, v) ==
    IF DictHas(d, k)
    THEN [i \in DOMAIN d |-> IF d[i][1] = k THEN <<k, v>> ELSE d[i]]
    ELSE Append(d, <<k, v>>)

RECURSIVE MaxKeyFrom(_, _, _)
MaxKeyFrom(d, i, best) ==
    IF i > Len(d) THEN d[best][1]
    ELSE MaxKeyFrom(d, i + 1, IF d[i][2] > d[best][2] THEN i ELSE best)

RECURSIVE MaxKeyLastFrom(_, _, _)
MaxKeyLastFrom(d, i, best) ==
    IF i > Len(d) THEN d[best][1]
    ELSE MaxKeyLastFrom(d, i + 1, IF d[i][2] >= d[best][2] THEN i ELSE best)

\* max(d, key=d.get) taking the last of several greatest values
MaxKeyLast(d) == MaxKeyLastFrom(d, 2, 1)

\* max(d, key=d.get) : the first key, in insertion order, of greatest value
MaxKey(d) == MaxKeyFrom(d, 2, 1)

----------------------------------------------------------------------------
(* services/emotion.py *)

EMOTION_LABELS ==
    <<"angry", "disgust", "fear", "happy", "neutral", "sad", "surprise">>

\* the mock distribution of analyze_emotion, in hundredths
MockDistribution ==
    << <<"happy", 45>>, <<"sad", 15>>, <<"angry", 10>>, <<"neutral", 20>>,
       <<"fear", 5>>, <<"surprise", 3>>, <<"disgust", 2>> >>

\* analyze_emotion(image_path); `opens` says whether Image.open succeeds.
\* Every exception is caught inside: the function never raises.
analyze_emotion(opens) ==
    IF opens
    THEN LET dominant_emotion == MaxKey(MockDistribution)
         IN  [raised |-> FALSE,
              emotion |-> dominant_emotion,
              emotion_distribution |-> MockDistribution,
              confidence |-> DictGet(MockDistribution, dominant_emotion, 0)]
    ELSE [raised |-> FALSE,
          emotion |-> "neutral",
          emotion_distribution |-> << >>,
          confidence |-> 0]

RECURSIVE CountEmotions(_, _, _)
CountEmotions(results, i, emotion_counts) ==
    IF i > Len(results) THEN emotion_counts
    ELSE LET emotion == results[i].emotion
         IN  CountEmotions(results, i + 1,
                 DictSet(emotion_counts, emotion,
                         DictGet(emotion_counts, emotion, 0) + 1))

\* aggregate_emotions dividing by the number of labels, not of images
aggregate_emotions_by_labels(results) ==
    IF results = << >>
    THEN [dominant_emotion |-> "neutral",
          emotion_confidence |-> <<0, 1>>,
          emotion_distribution |-> << >>]
    ELSE LET emotion_counts == CountEmotions(results, 1, << >>)
             dominant_emotion == MaxKey(emotion_counts)
             total_images == Len(emotion_counts)
         IN  [dominant_emotion |-> dominant_emotion,
              emotion_confidence |->
                  <<DictGet(emotion_counts, dominant_emotion, 0), total_images>>,
              emotion_distribution |->
                  [i \in DOMAIN emotion_counts |->
                      <<emotion_counts[i][1],
                        <<emotion_counts[i][2], total_images>> >>]]

aggregate_emotions(results) ==
    IF results = << >>
    THEN [dominant_emotion |-> "neutral",
          emotion_confidence |-> <<0, 1>>,
          emotion_distribution |-> << >>]
    ELSE LET emotion_counts == CountEmotions(results, 1, << >>)
             dominant_emotion == MaxKey(emotion_counts)
             total_images == Len(results)
         IN  [dominant_emotion |-> dominant_emotion,
              emotion_confidence |->
                  <<DictGet(emotion_counts, dominant_emotion, 0), total_images>>,
              emotion_distribution |->
                  [i \in DOMAIN emotion_counts |->
                      <<emotion_counts[i][1],
                        <<emotion_counts[i][2], total_images>> >>]]

----------------------------------------------------------------------------
(* services/database.py *)

EmptyDb ==
    [session_user |-> {},
     emotion_log |-> EmptyBag,
     session_aggregated_emotion |-> EmptyBag]

SessionRows(d, session_id) ==
    {u \in d.session_user : u.session_id = session_id}

\* insert_session_user swallowing its exception as the other inserts do
insert_session_user_swallowing(d, session_id, privacy_policy_agreed, utcnow, flushed, db_ok) ==
    IF ~db_ok \/ SessionRows(d, session_id) # {}
    THEN [db |-> d, raised |-> FALSE]
    ELSE [db |-> [d EXCEPT !.session_user = @ \cup
                     {[session_id |-> session_id,
                       created_at |-> flushed,
                       expires_at |-> utcnow + SESSION_EXPIRY_HOURS]}],
          raised |-> FALSE]

\* insert_session_user: the commit fails when the database is unreachable or
\* the primary key session_id is taken; the exception is logged and re-raised.
\* privacy_policy_agreed goes into a column only, whatever its value.
\* expires_at is computed from utcnow() when the function starts; created_at
\* is the column default, a second utcnow() evaluated when the INSERT is
\* executed, at `flushed`.
insert_session_user(d, session_id, privacy_policy_agreed, utcnow, flushed, db_ok) ==
    IF ~db_ok \/ SessionRows(d, session_id) # {}
    THEN [db |-> d, raised |-> TRUE]
    ELSE [db |-> [d EXCEPT !.session_user = @ \cup
                     {[session_id |-> session_id,
                       created_at |-> flushed,
                       expires_at |-> utcnow + SESSION_EXPIRY_HOURS]}],
          raised |-> FALSE]

\* insert_emotion_log: an exception is logged and swallowed.
insert_emotion_log(d, image_id, session_id, emotion_label, confidence, db_ok) ==
    IF ~db_ok THEN d
    ELSE [d EXCEPT !.emotion_log = @ (+) SetToBag(
              {[image_id |-> image_id,
                session_id |-> session_id,
                emotion_label |-> emotion_label,
                confidence |-> confidence]})]

\* insert_aggregated_emotion on a table whose session_id is not unique
insert_aggregated_emotion_not_unique(d, session_id, agg, db_ok) ==
    IF ~db_ok THEN d
    ELSE [d EXCEPT !.session_aggregated_emotion = @ (+) SetToBag(
              {[session_id |-> session_id,
                dominant_emotion |-> agg.dominant_emotion,
                emotion_confidence |-> agg.emotion_confidence,
                emotion_distribution |-> agg.emotion_distribution]})]

\* insert_aggregated_emotion: session_id is unique in the table; an exception
\* (the unique violation included) is logged and swallowed.
insert_aggregated_emotion(d, session_id, agg, db_ok) ==
    IF ~db_ok \/ \E row \in BagToSet(d.session_aggregated_emotion) :
                     row.session_id = session_id
    THEN d
    ELSE [d EXCEPT !.session_aggregated_emotion = @ (+) SetToBag(
              {[session_id |-> session_id,
                dominant_emotion |-> agg.dominant_emotion,
                emotion_confidence |-> agg.emotion_confidence,
                emotion_distribution |-> agg.emotion_distribution]})]

\* get_matched_images: the list the index holds for the embedding; `matches`
\* is its length.  limit and threshold are not used by the function.
get_matched_images(matches) ==
    [i \in 1..matches |-> [image_id |-> i]]

\* query(T).delete() without its filter
DeleteFromUnfiltered(table, session_id) == EmptyBag

\* query(T).filter(T.session_id == session_id).delete() on a bag of rows
DeleteFrom(table, session_id) ==
    [row \in {r \in BagToSet(table) : r.session_id # session_id} |->
        table[row]]

\* the number of rows that query(T).filter(...).delete() finds
Matched(table, session_id) ==
    BagCardinality(table) - BagCardinality(DeleteFrom(table, session_id))

\* delete_session without its delete on EmotionLog
DeleteRowsButLogs(d, session_id) ==
    [session_user |-> {u \in d.session_user : u.session_id # session_id},
     emotion_log |-> d.emotion_log,
     session_aggregated_emotion |->
         DeleteFrom(d.session_aggregated_emotion, session_id)]

\* delete_session with its delete on SessionUser alone
DeleteSessionUserOnly(d, session_id) ==
    [d EXCEPT !.session_user = {u \in @ : u.session_id # session_id}]

DeleteRows(d, session_id) ==
    [session_user |-> {u \in d.session_user : u.session_id # session_id},
     emotion_log |-> DeleteFrom(d.emotion_log, session_id),
     session_aggregated_emotion |->
         DeleteFrom(d.session_aggregated_emotion, session_id)]

\* delete_session raising when the session has no row left
delete_session_strict(d, session_id, db_ok) ==
    IF ~db_ok THEN [db |-> d, raised |-> FALSE]
    ELSE IF SessionRows(d, session_id) = {}
         THEN [db |-> d, raised |-> TRUE]
         ELSE [db |-> DeleteRows(d, session_id), raised |-> FALSE]

\* delete_session: three deletes and one commit; an exception is logged and
\* swallowed, and nothing is committed.
delete_session(d, session_id, db_ok) ==
    IF ~db_ok THEN [db |-> d, raised |-> FALSE]
    ELSE [db |-> DeleteRows(d, session_id), raised |-> FALSE]

----------------------------------------------------------------------------
(* services/s3_storage.py, face_detection.py, embedding.py *)

\* What the captured_image of a request can be.
Images == {"face", "no_face", "not_bitmap", "bad_base64"}

\* upload_image_to_s3: b64decode or put_object may raise; re-raised.
upload_image_to_s3(bucket, image, session_id, s3_ok) ==
    IF image = "bad_base64" \/ ~s3_ok
    THEN [s3 |-> bucket, raised |-> TRUE]
    ELSE [s3 |-> bucket \cup {session_id}, raised |-> FALSE]

\* detect_and_align_face handing on the whole image when it finds no face
detect_and_align_face_whole_image(image) ==
    IF image \in {"face", "no_face"} THEN "aligned_face" ELSE None

\* detect_and_align_face: None when the bytes do not decode to an image or
\* hold no face; never raises.
detect_and_align_face(image) ==
    IF image = "face" THEN "aligned_face" ELSE None

\* extract_embedding: None on any failure; never raises.
extract_embedding(face_image, emb_ok) ==
    IF emb_ok THEN "embedding" ELSE None

----------------------------------------------------------------------------
(* routes/search.py *)

Requests == [session_id : SessionIds, privacy_policy_agreed : BOOLEAN]

\* What the collaborators do for one request.  A field the handler does not
\* come to read keeps the value it has in CalmEnv.  The lag of the INSERT is
\* varied for the request that finds no match.
CalmEnv ==
    [session_ok |-> TRUE,       \* the database takes the session row
     image |-> "face",          \* what captured_image holds
     s3_ok |-> TRUE,            \* put_object succeeds
     emb_ok |-> TRUE,           \* the face analyzer finds the face again
     matches |-> 0,             \* number of images the index returns
     opens |-> << >>,           \* per match: Image.open succeeds
     db_ok |-> TRUE,            \* the database stays reachable after step 1
     lag |-> 0]                 \* clock readings between the utcnow() of
                                \* insert_session_user and its INSERT

\* The clock either reads the same at the INSERT or has moved on.
Lags == {0, 1}

Envs ==
    {[CalmEnv EXCEPT !.session_ok = FALSE]}
    \cup {[CalmEnv EXCEPT !.lag = l] : l \in Lags}
    \cup {[CalmEnv EXCEPT !.image = img] : img \in Images \ {"face"}}
    \cup {[CalmEnv EXCEPT !.s3_ok = FALSE]}
    \cup {[CalmEnv EXCEPT !.emb_ok = FALSE]}
    \cup UNION {
           {[CalmEnv EXCEPT !.matches = n, !.opens = o, !.db_ok = ok] :
               o \in [1..n -> BOOLEAN], ok \in BOOLEAN}
           : n \in 1..MaxCandidates}

\* The values of the frame variables while no coroutine holds them.
NoRequest == [session_id |-> None, privacy_policy_agreed |-> FALSE]

NoEnv == [CalmEnv EXCEPT !.image = None]

NoAggregate ==
    [dominant_emotion |-> None, emotion_confidence |-> <<0, 1>>,
     emotion_distribution |-> << >>]

NoPurge ==
    [session_id |-> None, at |-> 0, committed |-> FALSE, raised |-> FALSE,
     rows |-> {}, matched |-> <<0, 0>>]

NoResponse ==
    [status |-> 0, detail |-> None, matched_count |-> 0,
     matched_images |-> << >>,
     aggregated_state |->
         [dominant_emotion |-> None, emotion_confidence |-> <<0, 1>>,
          distribution |-> << >>],
     session_id |-> None]

\* raise HTTPException(status_code, detail)
HTTPException(status_code, detail) ==
    [NoResponse EXCEPT !.status = status_code, !.detail = detail]

\* What search_photos leaves behind when it raises.
Raised(d, bucket, made, results, agg, status_code, detail) ==
    [db |-> d, s3 |-> bucket, calls |-> made, emotion_results |-> results,
     aggregated |-> agg, scheduled |-> FALSE,
     response |-> HTTPException(status_code, detail)]

\* the check `if not matched_images` left out
NoMatchesIgnored(matched_images) == FALSE

\* `not matched_images`
NoMatches(matched_images) == matched_images = << >>

\* Step 6, the loop over matched_images from index i on.  acc holds the
\* database, emotion_results and the calls made so far.
RECURSIVE AnalyzeLoop(_, _, _, _, _)
AnalyzeLoop(matched_images, i, session_id, e, acc) ==
    IF i > Len(matched_images) THEN acc
    ELSE LET img == matched_images[i]
             r == analyze_emotion(e.opens[i])
             made == Append(acc.calls, "analyze_emotion")
         IN  IF r.raised
             THEN AnalyzeLoop(matched_images, i + 1, session_id, e,
                      [acc EXCEPT !.calls = made])
             ELSE AnalyzeLoop(matched_images, i + 1, session_id, e,
                      [db |-> insert_emotion_log(acc.db, img.image_id,
                                  session_id, r.emotion, r.confidence,
                                  e.db_ok),
                       emotion_results |-> Append(acc.emotion_results,
                           [image_id |-> img.image_id,
                            emotion |-> r.emotion,
                            emotion_distribution |-> r.emotion_distribution,
                            emotion_confidence |-> r.confidence]),
                       calls |-> Append(made, "insert_emotion_log")])

\* SearchResponse counting the results classified with some confidence
SearchResponseCountingConfident(results, agg, session_id) ==
    [status |-> 200, detail |-> None,
     matched_count |->
         Cardinality({i \in DOMAIN results :
                         results[i].emotion_confidence # 0}),
     matched_images |-> results,
     aggregated_state |->
         [dominant_emotion |-> agg.dominant_emotion,
          emotion_confidence |-> agg.emotion_confidence,
          distribution |-> agg.emotion_distribution],
     session_id |-> session_id]

\* SearchResponse(matched_count=len(emotion_results), ...), returned with 200
SearchResponse(results, agg, session_id) ==
    [status |-> 200, detail |-> None,
     matched_count |-> Len(results),
     matched_images |-> results,
     aggregated_state |->
         [dominant_emotion |-> agg.dominant_emotion,
          emotion_confidence |-> agg.emotion_confidence,
          distribution |-> agg.emotion_distribution],
     session_id |-> session_id]

\* Steps 5 to 9 and the response, once the embedding is there.
SearchFromMatches(rq, e, d, bucket, made) ==
    LET matched_images == get_matched_images(e.matches)
        made5 == Append(made, "get_matched_images")
    IN  IF NoMatches(matched_images)
        THEN Raised(d, bucket, made5, << >>, NoAggregate, 404,
                    "No matching faces found in the database.")
        ELSE
        LET loop == AnalyzeLoop(Slice(matched_images, MAX_IMAGES_TO_PROCESS),
                        1, rq.session_id, e,
                        [db |-> d, emotion_results |-> << >>, calls |-> made5])
            agg == aggregate_emotions(loop.emotion_results)
            d8 == insert_aggregated_emotion(loop.db, rq.session_id, agg,
                                            e.db_ok)
        IN  [db |-> d8, s3 |-> bucket,
             calls |-> loop.calls \o
                       <<"aggregate_emotions", "insert_aggregated_emotion",
                         "add_task">>,
             emotion_results |-> loop.emotion_results,
             aggregated |-> agg,
             scheduled |-> TRUE,
             response |->
                 SearchResponse(loop.emotion_results, agg, rq.session_id)]

\* search_photos(request): the whole handler.  d and bucket are the database
\* and the bucket it finds, utcnow the time of the request.
search_photos(rq, e, d, bucket, utcnow) ==
    LET ins == insert_session_user(d, rq.session_id,
                   rq.privacy_policy_agreed, utcnow, utcnow + e.lag,
                   e.session_ok)
        made1 == <<"insert_session_user">>
    IN  IF ins.raised
        THEN Raised(d, bucket, made1, << >>, NoAggregate, 500, "Search failed")
        ELSE
        LET up == upload_image_to_s3(bucket, e.image, rq.session_id, e.s3_ok)
            made2 == Append(made1, "upload_image_to_s3")
        IN  IF up.raised
            THEN Raised(ins.db, bucket, made2, << >>, NoAggregate, 500,
                        "Search failed")
            ELSE
            LET aligned_face == detect_and_align_face(e.image)
                made3 == Append(made2, "detect_and_align_face")
            IN  IF aligned_face = None
                THEN Raised(ins.db, up.s3, made3, << >>, NoAggregate, 400,
                            "No face detected in the image.")
                ELSE
                LET embedding == extract_embedding(aligned_face, e.emb_ok)
                    made4 == Append(made3, "extract_embedding")
                IN  IF embedding = None     \* embedding.shape raises
                    THEN Raised(ins.db, up.s3, made4, << >>, NoAggregate, 500,
                                "Search failed")
                    ELSE SearchFromMatches(rq, e, ins.db, up.s3, made4)

\* asyncio.sleep(hours) : the conversion to seconds left out
SleepSecondsUnconverted(hours) == hours

\* the argument of asyncio.sleep in cleanup_session
SleepSeconds(hours) == hours * SECONDS_PER_HOUR

\* cleanup_session up to its await: the task that add_task queues, started
\* when the response has been sent.
cleanup_session(session_id, utcnow) ==
    [session_id |-> session_id,
     wake |-> utcnow + (SleepSeconds(SESSION_EXPIRY_HOURS) \div SECONDS_PER_HOUR)]

----------------------------------------------------------------------------
(* frontend/src: utils/api.js, App.jsx and its three components.           *)
(*                                                                         *)
(* A component is modelled in its committed renders: the state updates of  *)
(* one handler or one continuation are batched (React 18), so each is one  *)
(* action.  What the user, the camera and the network do are the inputs.   *)
(* FaceCaptureComponent is modelled from the point where its detection     *)
(* effect finds the model and the video element; whether the video has a   *)
(* frame to draw (readyState) is an input of each call of detectFaces.     *)

\* The values that stand for null in the state of the components.
NoImage == [mime |-> None, frame |-> 0, face |-> FALSE]

NoPayload ==
    [session_id |-> None, captured_image |-> NoImage,
     privacy_policy_agreed |-> FALSE]

\* a canvas nothing was drawn on
BlankCanvas == [frame |-> 0, face |-> FALSE]

\* canvasRef.current.toDataURL('image/jpeg', 0.9)
toDataURL(c) == [mime |-> "image/jpeg", frame |-> c.frame, face |-> c.face]

\* uuidv4(): the n-th identifier drawn; no two draws give the same
uuidv4(n) == ToString(n)

\* What the POST of a payload can come to: a response of search_photos for
\* the captured image, a response that is not from the application (a proxy
\* error without detail), or no response at all.
Outcomes(payload) ==
    {[reached |-> TRUE,
      response |->
          search_photos(
              [session_id |-> payload.session_id,
               privacy_policy_agreed |-> payload.privacy_policy_agreed],
              [e EXCEPT !.image = IF payload.captured_image.face
                                  THEN "face" ELSE "no_face"],
              EmptyDb, {}, 0).response] :
         e \in {x \in Envs : x.image = "face"}}
    \cup {[reached |-> TRUE, response |-> HTTPException(502, None)],
          [reached |-> FALSE, response |-> NoResponse]}

\* searchFaces(payload) after its await: response.data, or an Error with
\* error.response?.data?.detail || 'Search failed'
searchFaces(outcome) ==
    IF outcome.reached /\ outcome.response.status = 200
    THEN [threw |-> FALSE, data |-> outcome.response, message |-> None]
    ELSE [threw |-> TRUE, data |-> NoResponse,
          message |-> IF outcome.reached /\ outcome.response.detail # None
                      THEN outcome.response.detail
                      ELSE "Search failed"]

\* err.message || 'Search failed. Please try again.'
ErrorMessage(message) ==
    IF message \in {None, ""} THEN "Search failed. Please try again."
    ELSE message

\* onSubmit with one session_id generated when the form is mounted
onSubmitSameSession(agreed, image, n) ==
    IF ~agreed THEN [called |-> FALSE, payload |-> NoPayload]
    ELSE [called |-> TRUE,
          payload |-> [session_id |-> uuidv4(1),
                       captured_image |-> image,
                       privacy_policy_agreed |-> TRUE]]

\* onSubmit(data) of MetadataFormComponent: what it passes to onSearch.  n
\* identifiers were drawn before.
onSubmit(agreed, image, n) ==
    IF ~agreed THEN [called |-> FALSE, payload |-> NoPayload]
    ELSE [called |-> TRUE,
          payload |-> [session_id |-> uuidv4(n + 1),
                       captured_image |-> image,
                       privacy_policy_agreed |-> TRUE]]

\* the cleanup of the detection effect: cancelAnimationFrame(animationId)
\* cancels a callback that is requested and has not run
cancelAnimationFrame(d) == IF d = "scheduled" THEN "cancelled" ELSE d

InitClient ==
    /\ stage = "capture"
    /\ capturedImage = NoImage
    /\ appResults = NoResponse
    /\ isLoading = FALSE
    /\ error = None
    /\ backendOnline = FALSE
    /\ health = "pending"
    /\ inflight = NoPayload
    /\ sent = << >>
    /\ privacyAgreed = FALSE
    /\ faceDetected = FALSE
    /\ canvas = BlankCanvas
    /\ detection = "unstarted"
    /\ answered = 0

----------------------------------------------------------------------------
(* The state machine *)

frame == <<request, env, calls, emotion_results, aggregated, response,
           last_purge>>

Init ==
    /\ now = 0
    /\ running = "idle"
    /\ db = EmptyDb
    /\ s3 = {}
    /\ tasks = {}
    /\ lost = {}
    /\ request = NoRequest
    /\ env = NoEnv
    /\ calls = << >>
    /\ emotion_results = << >>
    /\ aggregated = NoAggregate
    /\ response = NoResponse
    /\ last_purge = NoPurge
    /\ InitClient

\* No coroutine is running: the event loop picks what runs next.
LoopIdle == running = "idle"

\* POST /api/v1/search.  Requests are taken only while the clock leaves the
\* retention window room to elapse.
Search ==
    /\ LoopIdle
    /\ now + SESSION_EXPIRY_HOURS <= MaxTime
    /\ running' = "search_photos"
    /\ \E rq \in Requests, e \in Envs :
         LET h == search_photos(rq, e, db, s3, now)
         IN  /\ request' = rq
             /\ env' = e
             /\ db' = h.db
             /\ s3' = h.s3
             /\ calls' = h.calls
             /\ emotion_results' = h.emotion_results
             /\ aggregated' = h.aggregated
             /\ response' = h.response
             /\ tasks' = IF h.scheduled
                         THEN tasks \cup {cleanup_session(rq.session_id, now)}
                         ELSE tasks
    /\ UNCHANGED <<now, lost, last_purge>>
    /\ UNCHANGED client

\* cleanup_session after its await: asyncio.sleep has returned.
Cleanup ==
    /\ LoopIdle
    /\ running' = "cleanup_session"
    /\ \E t \in tasks, db_ok \in BOOLEAN :
        /\ now >= t.wake
        /\ LET del == delete_session(db, t.session_id, db_ok)
           IN  /\ db' = del.db
               /\ last_purge' =
                      [session_id |-> t.session_id,
                       at |-> now,
                       committed |-> db_ok,
                       raised |-> del.raised,
                       rows |-> SessionRows(db, t.session_id),
                       matched |-> <<Matched(db.emotion_log, t.session_id),
                                     Matched(db.session_aggregated_emotion,
                                             t.session_id)>>]
        /\ tasks' = tasks \ {t}
    /\ UNCHANGED <<now, s3, lost, request, env, calls, emotion_results,
                   aggregated, response>>
    /\ UNCHANGED client

\* The running coroutine returns: the response is sent, the frame dropped.
Return ==
    /\ ~LoopIdle
    /\ running' = "idle"
    /\ request' = NoRequest
    /\ env' = NoEnv
    /\ calls' = << >>
    /\ emotion_results' = << >>
    /\ aggregated' = NoAggregate
    /\ response' = NoResponse
    /\ last_purge' = NoPurge
    /\ UNCHANGED <<now, db, s3, tasks, lost>>
    /\ UNCHANGED client

\* Time passes.
Tick ==
    /\ LoopIdle
    /\ now + TickHours <= MaxTime
    /\ now' = now + TickHours
    /\ UNCHANGED <<running, db, s3, tasks, lost, frame>>
    /\ UNCHANGED client

\* The server process is restarted: the sleeping coroutines are gone, the
\* database and the bucket stay.
Restart ==
    /\ LoopIdle
    /\ tasks # {}
    /\ tasks' = {}
    /\ lost' = lost \cup {t.session_id : t \in tasks}
    /\ UNCHANGED <<now, running, db, s3, frame>>
    /\ UNCHANGED client

Next == Search \/ Cleanup \/ Return \/ Tick \/ Restart

Spec == Init /\ [][Next]_vars

\* The same without restarts: the server process keeps running.
NextRunning == Search \/ Cleanup \/ Return \/ Tick

\* Time passes and asyncio resumes a task whose sleep is over, however many
\* requests arrive in between; a coroutine that can return returns.
Fairness == SF_vars(Tick) /\ SF_vars(Cleanup) /\ WF_vars(Return)

LiveSpec == Init /\ [][Next]_vars /\ Fairness

LiveSpecRunning == Init /\ [][NextRunning]_vars /\ Fairness

----------------------------------------------------------------------------
(* aggregate_emotions on its own: every list of up to MaxLen results *)

Range(f) == {f[i] : i \in DOMAIN f}

LabelLists == UNION {[1..n -> Range(EMOTION_LABELS)] : n \in 0..MaxLen}

ResultsOf(labels) ==
    [i \in DOMAIN labels |->
        [image_id |-> i, emotion |-> labels[i],
         emotion_distribution |-> << >>, emotion_confidence |-> 0]]

InitAgg ==
    /\ now = 0
    /\ running = "idle"
    /\ db = EmptyDb
    /\ s3 = {}
    /\ tasks = {}
    /\ lost = {}
    /\ request = NoRequest
    /\ env = NoEnv
    /\ calls = << >>
    /\ emotion_results \in {ResultsOf(labels) : labels \in LabelLists}
    /\ aggregated = NoAggregate
    /\ response = NoResponse
    /\ last_purge = NoPurge
    /\ InitClient

Aggregate ==
    /\ calls = << >>
    /\ calls' = <<"aggregate_emotions">>
    /\ aggregated' = aggregate_emotions(emotion_results)
    /\ UNCHANGED <<now, running, db, s3, tasks, lost, request, env,
                   emotion_results, response, last_purge>>
    /\ UNCHANGED client

SpecAgg == InitAgg /\ [][Aggregate]_vars

----------------------------------------------------------------------------
(* The client on its own: the server variables stay as they start *)

\* checkBackend: healthCheck() resolved
HealthResolved ==
    /\ health = "pending"
    /\ health' = "settled"
    /\ backendOnline' = TRUE
    /\ UNCHANGED <<server, stage, capturedImage, appResults, isLoading, error,
                   inflight, sent, privacyAgreed, faceDetected, canvas,
                   detection, answered>>

\* checkBackend: healthCheck() threw 'Backend unreachable'
HealthRejected ==
    /\ health = "pending"
    /\ health' = "settled"
    /\ backendOnline' = FALSE
    /\ UNCHANGED <<server, stage, capturedImage, appResults, isLoading, error,
                   inflight, sent, privacyAgreed, faceDetected, canvas,
                   detection, answered>>

\* detectFaces up to its await or, without one, to its end.  It is called by
\* the effect and then by each animation frame.  Once the component is
\* unmounted canvasRef.current is null and canvas.getContext throws.
DetectFaces ==
    /\ detection \in {"unstarted", "scheduled"}
    /\ detection = "unstarted" => stage = "capture"
    /\ IF stage # "capture"
       THEN detection' = "threw" /\ UNCHANGED canvas
       ELSE \E ready \in BOOLEAN, face \in BOOLEAN :
               IF ready
               THEN /\ canvas.frame < MaxFrames
                    /\ canvas' = [frame |-> canvas.frame + 1, face |-> face]
                    /\ detection' = "awaiting"
               ELSE /\ detection' = "scheduled"
                    /\ UNCHANGED canvas
    /\ UNCHANGED <<server, stage, capturedImage, appResults, isLoading, error,
                   backendOnline, health, inflight, sent, privacyAgreed,
                   faceDetected, answered>>

\* detectFaces after `await model.estimateFaces(video, false)`: the
\* predictions are those of the frame on the canvas; setFaceDetected does
\* nothing on an unmounted component; the next animation frame is requested.
EstimateResolved ==
    /\ detection = "awaiting"
    /\ detection' = "scheduled"
    /\ IF stage = "capture"
       THEN faceDetected' = canvas.face /\ answered' = canvas.frame
       ELSE UNCHANGED <<faceDetected, answered>>
    /\ UNCHANGED <<server, stage, capturedImage, appResults, isLoading, error,
                   backendOnline, health, inflight, sent, privacyAgreed,
                   canvas>>

\* handleCapture of App without its setCapturedImage
AppHandleCaptureStageOnly ==
    /\ capturedImage' = capturedImage
    /\ stage' = "form"

\* handleCapture of App: setCapturedImage(base64Image); setStage('form')
AppHandleCapture ==
    /\ capturedImage' = toDataURL(canvas)
    /\ stage' = "form"

\* A click on 'Capture Face', enabled while faceDetected: handleCapture of
\* FaceCaptureComponent, onCapture, and the unmount that the new stage brings,
\* with the cleanup of the detection effect.
CaptureClick ==
    /\ stage = "capture"
    /\ faceDetected
    /\ AppHandleCapture
    /\ detection' = cancelAnimationFrame(detection)
    /\ UNCHANGED <<server, appResults, isLoading, error, backendOnline, health,
                   inflight, sent, privacyAgreed, faceDetected, canvas,
                   answered>>

\* the privacy checkbox of MetadataFormComponent
TogglePrivacy ==
    /\ stage = "form"
    /\ privacyAgreed' = ~privacyAgreed
    /\ UNCHANGED <<server, stage, capturedImage, appResults, isLoading, error,
                   backendOnline, health, inflight, sent, faceDetected, canvas,
                   detection, answered>>

\* The form is submitted (its button is disabled while isLoading or without
\* the checkbox): onSubmit, then handleSearch of App up to its await.
Submit ==
    /\ stage = "form"
    /\ ~(isLoading \/ ~privacyAgreed)
    /\ Len(sent) < MaxSubmits
    /\ LET submitted == onSubmit(privacyAgreed, capturedImage, Len(sent))
       IN  IF submitted.called
           THEN /\ isLoading' = TRUE
                /\ error' = None
                /\ inflight' = submitted.payload
                /\ sent' = Append(sent, submitted.payload)
           ELSE UNCHANGED <<isLoading, error, inflight, sent>>
    /\ UNCHANGED <<server, stage, capturedImage, appResults, backendOnline,
                   health, privacyAgreed, faceDetected, canvas, detection,
                   answered>>

\* handleSearch leaving the form for the capture stage when the search fails
SearchFailedBackToCapture ==
    /\ inflight # NoPayload
    /\ \E outcome \in Outcomes(inflight) :
          LET r == searchFaces(outcome)
          IN  /\ r.threw
              /\ error' = ErrorMessage(r.message)
    /\ stage' = "capture"
    /\ isLoading' = FALSE
    /\ inflight' = NoPayload
    /\ UNCHANGED <<server, capturedImage, appResults, backendOnline, health,
                   sent, privacyAgreed, faceDetected, canvas, detection,
                   answered>>

\* handleSearch without its finally block
SearchFailedStillLoading ==
    /\ inflight # NoPayload
    /\ \E outcome \in Outcomes(inflight) :
          LET r == searchFaces(outcome)
          IN  /\ r.threw
              /\ error' = ErrorMessage(r.message)
    /\ inflight' = NoPayload
    /\ UNCHANGED <<server, stage, capturedImage, appResults, isLoading,
                   backendOnline, health, sent, privacyAgreed, faceDetected,
                   canvas, detection, answered>>

\* handleSearch after its await, searchFaces having thrown: catch, finally
SearchFailed ==
    /\ inflight # NoPayload
    /\ \E outcome \in Outcomes(inflight) :
          LET r == searchFaces(outcome)
          IN  /\ r.threw
              /\ error' = ErrorMessage(r.message)
    /\ isLoading' = FALSE
    /\ inflight' = NoPayload
    /\ UNCHANGED <<server, stage, capturedImage, appResults, backendOnline,
                   health, sent, privacyAgreed, faceDetected, canvas,
                   detection, answered>>

\* handleSearch after its await, searchFaces having returned: setResults,
\* setStage('results'), finally
SearchSucceeded ==
    /\ inflight # NoPayload
    /\ \E outcome \in Outcomes(inflight) :
          LET r == searchFaces(outcome)
          IN  /\ ~r.threw
              /\ appResults' = r.data
    /\ stage' = "results"
    /\ isLoading' = FALSE
    /\ inflight' = NoPayload
    /\ UNCHANGED <<server, capturedImage, error, backendOnline, health, sent,
                   privacyAgreed, faceDetected, canvas, detection, answered>>

\* 'New Search' of ResultsComponent: window.location.reload().  The page
\* starts again; `sent` keeps what the server has received.
NewSearch ==
    /\ stage = "results"
    /\ stage' = "capture"
    /\ capturedImage' = NoImage
    /\ appResults' = NoResponse
    /\ isLoading' = FALSE
    /\ error' = None
    /\ backendOnline' = FALSE
    /\ health' = "pending"
    /\ inflight' = NoPayload
    /\ privacyAgreed' = FALSE
    /\ faceDetected' = FALSE
    /\ canvas' = BlankCanvas
    /\ detection' = "unstarted"
    /\ answered' = 0
    /\ UNCHANGED <<server, sent>>

\* the component App renders in its main content
Rendered ==
    IF stage = "capture" THEN "FaceCaptureComponent"
    ELSE IF stage = "form" THEN "MetadataFormComponent"
    ELSE IF stage = "results" THEN "ResultsComponent"
    ELSE None

NextClient ==
    \/ HealthResolved
    \/ HealthRejected
    \/ DetectFaces
    \/ EstimateResolved
    \/ CaptureClick
    \/ TogglePrivacy
    \/ Submit
    \/ SearchFailed
    \/ SearchSucceeded
    \/ NewSearch

SpecClient == Init /\ [][NextClient]_vars

----------------------------------------------------------------------------
(* Vocabulary of the properties *)

\* search_photos has just handled `request`
Handled == running = "search_photos"

\* search_photos made this call for `request`
Called(name) == \E i \in DOMAIN calls : calls[i] = name

StorageAndModelCalls ==
    {"insert_session_user", "upload_image_to_s3", "detect_and_align_face",
     "extract_embedding", "get_matched_images", "analyze_emotion",
     "insert_emotion_log", "aggregate_emotions", "insert_aggregated_emotion"}

\* the calls into the face aligner, the embedding extractor, the index and
\* the classifier
ModelCalls ==
    {"detect_and_align_face", "extract_embedding", "get_matched_images",
     "analyze_emotion"}

\* the matches of `request` whose classification succeeded
Classified == {i \in 1..env.matches : env.opens[i]}

LogsOf(d, session_id) ==
    {row \in BagToSet(d.emotion_log) : row.session_id = session_id}

AggregatesOf(d, session_id) ==
    {row \in BagToSet(d.session_aggregated_emotion) :
        row.session_id = session_id}

\* the rows of the session in the three tables, with their multiplicity
RowsOf(d, session_id) ==
    [session_user |-> SessionRows(d, session_id),
     emotion_log |->
         [row \in LogsOf(d, session_id) |-> d.emotion_log[row]],
     session_aggregated_emotion |->
         [row \in AggregatesOf(d, session_id) |->
             d.session_aggregated_emotion[row]]]

\* nothing of the session is left in the database
Purged(d, session_id) ==
    /\ SessionRows(d, session_id) = {}
    /\ LogsOf(d, session_id) = {}
    /\ AggregatesOf(d, session_id) = {}

HasTask(session_id) == \E t \in tasks : t.session_id = session_id

Tally(results, label) ==
    Cardinality({i \in DOMAIN results : results[i].emotion = label})

Observed(results) == {results[i].emotion : i \in DOMAIN results}

FirstSeen(results, label) ==
    CHOOSE i \in DOMAIN results :
        /\ results[i].emotion = label
        /\ \A j \in DOMAIN results : results[j].emotion = label => i <= j

RECURSIVE SumNumerators(_, _)
SumNumerators(dist, i) ==
    IF i > Len(dist) THEN 0 ELSE dist[i][2][1] + SumNumerators(dist, i + 1)

----------------------------------------------------------------------------
(* Properties *)

\* C1: a request with privacy_policy_agreed = false is answered 400 with no
\* storage write and no model call made for it.
ConsentGate ==
    (Handled /\ ~request.privacy_policy_agreed) =>
        /\ response.status = 400
        /\ \A name \in StorageAndModelCalls : ~Called(name)

\* C2: a successful response holds exactly the matches whose classification
\* succeeded, and the aggregate is computed over those alone.
PartialFailureDropped ==
    (Handled /\ response.status = 200) =>
        /\ response.matched_count = Cardinality(Classified)
        /\ {response.matched_images[j].image_id :
               j \in DOMAIN response.matched_images} = Classified
        /\ Len(response.matched_images) = Cardinality(Classified)
        /\ Len(emotion_results) = Cardinality(Classified)
        /\ response.aggregated_state.emotion_confidence[2]
               = Cardinality(Classified)

\* C3: when the index returned matches and every classification failed, the
\* search does not succeed and no aggregated row is stored for the session.
AllFailedIsAnError ==
    (Handled /\ Called("analyze_emotion") /\ Classified = {}) =>
        /\ response.status # 200
        /\ AggregatesOf(db, request.session_id) = {}

\* C4: while the server keeps running, every session row in the database is
\* eventually deleted.
EverySessionPurged ==
    \A id \in SessionIds :
        (SessionRows(db, id) # {}) ~> (SessionRows(db, id) = {})

\* C5: a session past its expiry whose cleanup task was lost in a restart
\* is eventually deleted all the same.
OrphanedSessionSwept ==
    \A id \in SessionIds :
        (/\ id \in lost
         /\ ~HasTask(id)
         /\ SessionRows(db, id) # {}
         /\ \A u \in SessionRows(db, id) : now >= u.expires_at)
        ~> (SessionRows(db, id) = {})

\* Why the two behaviours above are not cut short by the bound on the clock:
\* a session row that no cleanup task waits for keeps that condition in every
\* step, whatever the time, since only cleanup_session deletes and only a
\* search that inserted the row schedules it.
OrphanStaysOrphan ==
    [][\A id \in SessionIds :
          (SessionRows(db, id) # {} /\ ~HasTask(id)) =>
              (SessionRows(db', id) = SessionRows(db, id)
               /\ ~\E t \in tasks' : t.session_id = id)]_vars

\* `tasks` loses nothing by being a set: a session has at most one task.
OneTaskPerSession ==
    \A t1, t2 \in tasks : t1.session_id = t2.session_id => t1 = t2

\* C6: for a non-empty list of N results the dominant emotion has the
\* highest tally, the confidence is tally(dominant)/N, and the distribution
\* maps each observed label, and no other, to tally(label)/N; its values sum
\* to 1.
MajorityVote ==
    (Called("aggregate_emotions") /\ emotion_results # << >>) =>
        LET N == Len(emotion_results)
            dominant == aggregated.dominant_emotion
            dist == aggregated.emotion_distribution
        IN  /\ dominant \in Observed(emotion_results)
            /\ \A label \in Observed(emotion_results) :
                   Tally(emotion_results, dominant)
                       >= Tally(emotion_results, label)
            /\ aggregated.emotion_confidence
                   = <<Tally(emotion_results, dominant), N>>
            /\ {dist[i][1] : i \in DOMAIN dist} = Observed(emotion_results)
            /\ \A i, j \in DOMAIN dist : dist[i][1] = dist[j][1] => i = j
            /\ \A i \in DOMAIN dist :
                   dist[i][2] = <<Tally(emotion_results, dist[i][1]), N>>
            /\ SumNumerators(dist, 1) = N

MajorityVoteSeen ==
    /\ Called("aggregate_emotions")
    /\ Len(emotion_results) = 3
    /\ Cardinality(Observed(emotion_results)) = 2
    /\ aggregated.emotion_confidence = <<2, 3>>

\* C7: of the labels that share the highest tally, the dominant emotion is
\* the one met first in the list.
TieBrokenByFirstSeen ==
    (Called("aggregate_emotions") /\ emotion_results # << >>) =>
        \A label \in Observed(emotion_results) :
            Tally(emotion_results, label)
                >= Tally(emotion_results, aggregated.dominant_emotion)
            => FirstSeen(emotion_results, aggregated.dominant_emotion)
                   <= FirstSeen(emotion_results, label)

TieSeen ==
    /\ Called("aggregate_emotions")
    /\ emotion_results # << >>
    /\ \E label \in Observed(emotion_results) :
           /\ label # aggregated.dominant_emotion
           /\ Tally(emotion_results, label)
                  = Tally(emotion_results, aggregated.dominant_emotion)
           /\ FirstSeen(emotion_results, label) = 2

\* C8: when the index returns no match the search is answered 404, with no
\* classification, no aggregation and no emotion or aggregated row written.
NoMatchesIs404 ==
    (Handled /\ Called("get_matched_images") /\ env.matches = 0) =>
        /\ response.status = 404
        /\ ~Called("analyze_emotion")
        /\ ~Called("insert_emotion_log")
        /\ ~Called("aggregate_emotions")
        /\ ~Called("insert_aggregated_emotion")
        /\ LogsOf(db, request.session_id) = {}
        /\ AggregatesOf(db, request.session_id) = {}

NoMatchesSeen ==
    /\ Handled
    /\ Called("get_matched_images")
    /\ env.matches = 0
    /\ response.status = 404

\* C9: delete_session on a session that is already purged raises nothing and
\* leaves the database as it is; deleting twice gives what deleting once gives.
CleanupIdempotent ==
    \A id \in SessionIds :
        /\ Purged(db, id) =>
               \A db_ok \in BOOLEAN :
                   delete_session(db, id, db_ok) = [db |-> db, raised |-> FALSE]
        /\ LET once == delete_session(db, id, TRUE)
           IN  /\ ~once.raised
               /\ Purged(once.db, id)
               /\ delete_session(once.db, id, TRUE) = once

PurgedByCleanup ==
    /\ running = "cleanup_session"
    /\ last_purge.committed
    /\ last_purge.rows # {}
    /\ Purged(db, last_purge.session_id)
    /\ db # EmptyDb

\* C10: a session row leaves the database only when the time is at or after
\* its expires_at.
NeverPurgedEarly ==
    [][\A u \in db.session_user :
          u \notin db'.session_user => now >= u.expires_at]_vars

PurgeSeen ==
    /\ running = "cleanup_session"
    /\ last_purge.committed
    /\ \E u \in last_purge.rows :
           /\ u \notin db.session_user
           /\ last_purge.at = u.expires_at

\* C11: every session row in the database has expires_at equal to its
\* created_at plus the retention of SESSION_EXPIRY_HOURS, exactly.
ExpiryIsCreationPlusRetention ==
    \A u \in db.session_user :
        u.expires_at = u.created_at + SESSION_EXPIRY_HOURS

\* C12: when cleanup_session has committed, the database holds no session
\* row, no emotion_log row and no aggregated row of that session; when the
\* commit failed, none of the three deletes has taken effect.
CleanupAllOrNothing ==
    [][running' = "cleanup_session" =>
          IF last_purge'.committed
          THEN Purged(db', last_purge'.session_id)
          ELSE db' = db]_vars

CleanupTookAllThree ==
    /\ running = "cleanup_session"
    /\ last_purge.committed
    /\ last_purge.rows # {}
    /\ last_purge.matched[1] >= 1
    /\ last_purge.matched[2] = 1
    /\ Purged(db, last_purge.session_id)

\* C13: when cleanup_session has committed, the captured image that step 2
\* uploaded for the session is no longer in the bucket.
StoredImageDeleted ==
    (running = "cleanup_session" /\ last_purge.committed) =>
        last_purge.session_id \notin s3

\* C14: the database never holds more than one aggregated row of a session,
\* and on any database the program reaches a further aggregation for a
\* session id, whatever it carries, leaves at most one row of that id.
OneAggregatePerSession ==
    \A id \in SessionIds :
        /\ Matched(db.session_aggregated_emotion, id) <= 1
        /\ \A label \in Range(EMOTION_LABELS) :
               LET agg == aggregate_emotions(ResultsOf(<<label>>))
                   again == insert_aggregated_emotion(db, id, agg, TRUE)
               IN  Matched(again.session_aggregated_emotion, id) <= 1

SecondAggregationRejected ==
    /\ \A id \in SessionIds : Matched(db.session_aggregated_emotion, id) = 1
    /\ \E id \in SessionIds :
           insert_aggregated_emotion(db, id,
               aggregate_emotions(ResultsOf(<<"sad">>)), TRUE) = db

\* C15: a search calls the face aligner, the embedding extractor, the index
\* or the classifier only after insert_session_user has put its session row
\* into the database; when that insert fails (database unreachable, or
\* session_id taken) the search is answered 500 and makes none of those calls.
SessionBeforeModels ==
    [][running' = "search_photos" =>
          LET failed == \/ ~env'.session_ok
                        \/ SessionRows(db, request'.session_id) # {}
              models == {i \in DOMAIN calls' : calls'[i] \in ModelCalls}
          IN  /\ calls'[1] = "insert_session_user"
              /\ models # {} =>
                     /\ ~failed
                     /\ SessionRows(db', request'.session_id) # {}
                     /\ \A i \in models : i > 1
              /\ failed =>
                     /\ response'.status = 500
                     /\ models = {}
                     /\ db' = db]_vars

SessionInsertFailed ==
    /\ Handled
    /\ ~env.session_ok
    /\ response.status = 500
    /\ calls = <<"insert_session_user">>
    /\ SessionRows(db, request.session_id) = {}

\* C16: when a search is answered 200, the database holds an aggregated row
\* of its session with the dominant emotion, the confidence and the
\* distribution of the response.
AggregatePersistedOnSuccess ==
    (Handled /\ response.status = 200) =>
        \E row \in AggregatesOf(db, request.session_id) :
            /\ row.dominant_emotion
                   = response.aggregated_state.dominant_emotion
            /\ row.emotion_confidence
                   = response.aggregated_state.emotion_confidence
            /\ row.emotion_distribution
                   = response.aggregated_state.distribution

\* C17: when aggregate_emotions is called, the database holds exactly one
\* emotion_log row of the session for each result that enters the aggregate,
\* so a search answered 200 has matched_count such rows.
EmotionLogsBeforeAggregate ==
    (Handled /\ Called("aggregate_emotions")) =>
        /\ Matched(db.emotion_log, request.session_id) = Len(emotion_results)
        /\ \A i \in DOMAIN emotion_results :
               Cardinality({row \in LogsOf(db, request.session_id) :
                               row.image_id = emotion_results[i].image_id})
                   = 1
        /\ response.status = 200 =>
               Matched(db.emotion_log, request.session_id)
                   = response.matched_count

\* C18: a search whose image holds no face is answered 400 "No face
\* detected"; it makes no call to extract_embedding, get_matched_images or
\* analyze_emotion, writes no emotion_log or aggregated row, and leaves the
\* session row of step 1 in the database.
NoFaceIs400 ==
    [][(/\ running' = "search_photos"
        /\ \E i \in DOMAIN calls' : calls'[i] = "detect_and_align_face"
        /\ env'.image = "no_face") =>
          /\ response'.status = 400
          /\ response'.detail = "No face detected in the image."
          /\ ~\E i \in DOMAIN calls' :
                 calls'[i] \in {"extract_embedding", "get_matched_images",
                                "analyze_emotion", "insert_emotion_log",
                                "aggregate_emotions",
                                "insert_aggregated_emotion"}
          /\ db'.emotion_log = db.emotion_log
          /\ db'.session_aggregated_emotion = db.session_aggregated_emotion
          /\ SessionRows(db, request'.session_id) = {}
          /\ \E u \in db'.session_user :
                 /\ u.session_id = request'.session_id
                 /\ db'.session_user = db.session_user \cup {u}]_vars

NoFaceSeen ==
    /\ Handled
    /\ env.image = "no_face"
    /\ response.status = 400
    /\ calls = <<"insert_session_user", "upload_image_to_s3",
                 "detect_and_align_face">>
    /\ SessionRows(db, request.session_id) # {}

\* C19: a search whose captured_image is not decodable base64, or decodes to
\* bytes that are no image, is answered 400, never 500.
InvalidImageIs400 ==
    (/\ Handled
     /\ Called("upload_image_to_s3")
     /\ env.image \in {"bad_base64", "not_bitmap"}) =>
        response.status = 400

\* C20: a search whose embedding extraction fails is answered with a status
\* other than 500 and calls neither get_matched_images nor analyze_emotion.
EmbeddingFailedIsClientError ==
    (Handled /\ Called("extract_embedding") /\ ~env.emb_ok) =>
        /\ response.status # 500
        /\ response.status # 200
        /\ ~Called("get_matched_images")
        /\ ~Called("analyze_emotion")

\* C21: every emotion_log row in the database carries the session_id of a
\* session row that is in the database.
NoOrphanEmotionLog ==
    \A row \in BagToSet(db.emotion_log) :
        SessionRows(db, row.session_id) # {}

LogsSurviveOtherCleanup ==
    /\ running = "cleanup_session"
    /\ last_purge.committed
    /\ last_purge.matched[1] >= 1
    /\ \E row \in BagToSet(db.emotion_log) :
           row.session_id # last_purge.session_id

\* C22: a search for one session id and the cleanup of one session id leave
\* the rows of every other session id, in the three tables, and its cleanup
\* task as they are.
OtherSessionsUntouched ==
    [][\A b \in SessionIds :
          LET acting == IF running' = "search_photos"
                        THEN request'.session_id
                        ELSE IF running' = "cleanup_session"
                             THEN last_purge'.session_id
                             ELSE None
          IN  (acting # None /\ acting # b) =>
                  /\ RowsOf(db', b) = RowsOf(db, b)
                  /\ {t \in tasks' : t.session_id = b}
                         = {t \in tasks : t.session_id = b}]_vars

CleanupBesideFullSession ==
    /\ running = "cleanup_session"
    /\ last_purge.committed
    /\ last_purge.rows # {}
    /\ last_purge.matched[1] >= 1
    /\ \E b \in SessionIds :
           /\ b # last_purge.session_id
           /\ SessionRows(db, b) # {}
           /\ LogsOf(db, b) # {}
           /\ AggregatesOf(db, b) # {}
           /\ HasTask(b)

\* C23: in a response with status 200, matched_count is the number of
\* entries of matched_images.
CountIsLength ==
    (Handled /\ response.status = 200) =>
        response.matched_count = Len(response.matched_images)

TwoImagesCounted ==
    /\ Handled
    /\ response.status = 200
    /\ response.matched_count = 2
    /\ Len(response.matched_images) = 2
    /\ \E i \in DOMAIN response.matched_images :
           response.matched_images[i].emotion_confidence = 0

\* C24: while backendOnline is false App renders neither the capture step
\* nor the search form, and no search request is on its way.
HealthGate ==
    ~backendOnline =>
        /\ Rendered \notin {"FaceCaptureComponent", "MetadataFormComponent"}
        /\ inflight = NoPayload

\* C25: apart from the reload of 'New Search', the stage changes only from
\* 'capture' to 'form', in a capture, and from 'form' to 'results', when a
\* search has succeeded.
StageMovesForward ==
    [][(stage' # stage /\ ~(stage = "results" /\ health' = "pending")) =>
          \/ /\ stage = "capture"
             /\ stage' = "form"
             /\ capturedImage' # capturedImage
          \/ /\ stage = "form"
             /\ stage' = "results"
             /\ inflight # NoPayload
             /\ appResults'.status = 200]_vars

ResultsAfterFailure ==
    /\ stage = "results"
    /\ Len(sent) = 2
    /\ appResults.session_id = sent[2].session_id

\* C26: when a search attempt settles, isLoading is false afterwards; when
\* it failed, the stage is still 'form' and error is the detail of the
\* server's response or, without one, a fallback message.
FailureStaysOnForm ==
    [][(inflight # NoPayload /\ inflight' = NoPayload) =>
          /\ ~isLoading'
          /\ \E outcome \in Outcomes(inflight) :
                 IF outcome.reached /\ outcome.response.status = 200
                 THEN /\ stage' = "results"
                      /\ appResults' = outcome.response
                 ELSE /\ stage = "form"
                      /\ stage' = "form"
                      /\ appResults' = appResults
                      /\ error' =
                             IF outcome.reached
                                /\ outcome.response.detail # None
                             THEN outcome.response.detail
                             ELSE "Search failed"]_vars

ErrorShownOnForm ==
    /\ stage = "form"
    /\ inflight = NoPayload
    /\ ~isLoading
    /\ error = "No face detected in the image."
    /\ Len(sent) = 1

\* C27: in stage 'results' results is set and error is null; in stage 'form'
\* capturedImage is set.
StageHasItsData ==
    /\ stage = "results" => (appResults # NoResponse /\ error = None)
    /\ stage = "form" => capturedImage # NoImage

ResultsShown ==
    /\ stage = "results"
    /\ appResults.matched_count = 2
    /\ error = None
    /\ capturedImage # NoImage

ConsentAndFreshSession ==
    [][/\ ~onSubmit(FALSE, capturedImage, Len(sent)).called
       /\ sent' # sent =>
              /\ privacyAgreed
              /\ Len(sent') = Len(sent) + 1
              /\ SubSeq(sent', 1, Len(sent)) = sent
              /\ sent'[Len(sent')].privacy_policy_agreed
              /\ sent'[Len(sent')].captured_image = capturedImage
              /\ \A i \in DOMAIN sent :
                     sent[i].session_id # sent'[Len(sent')].session_id]_vars

RetryAfterFailure ==
    /\ stage = "form"
    /\ isLoading
    /\ Len(sent) = 2
    /\ inflight = sent[2]
    /\ sent[1].session_id # sent[2].session_id
    /\ sent[1].captured_image = sent[2].captured_image

====
